---- MODULE Spec2Model ----
(***************************************************************************)
(* State-machine model of the news scraping orchestrators of the MBG       *)
(* opinion dashboard: detik, kompas, tempo, tribunnews, pikiran-rakyat     *)
(* (search_pikiran_rakyat + its command line) and the republika command    *)
(* line.  One run of one site is one behaviour; the site, the command-line *)
(* flags and everything the web returns are chosen nondeterministically.   *)
(***************************************************************************)
EXTENDS Integers, Sequences, FiniteSets, TLC

VARIABLES
    site,           \* which script runs
    pc,             \* position of the run
    pg,             \* listing loop variable (pg / page_num / page)
    list_rows,      \* list_rows / all_urls / all_search_results / all_results
    urls,           \* urls / all_urls / unique_search_data / batch input
    idx,            \* number of unique urls the detail loop has finished
    out,            \* out / all_articles: the output table
    errors,         \* errors list (pikiran-rakyat, republika batch)
    sources_bound,  \* detik: the local name `sources` has been assigned
    browser,        \* "none", "open", "closed"
    log,            \* history: navigations, their results, randomized sleeps
    written,        \* set of files written
    exit_status,    \* -1 while the process runs, else the exit status
    search_only,    \* pikiran-rakyat --search-only
    scrape_content, \* republika --scrape-content
    page_range,     \* republika --pages, parsed: <<start_page, end_page>>
    pending,        \* republika batch: submitted urls not yet collected
    max_articles,   \* pikiran-rakyat --max-articles
    futures,        \* scrape_republika_batch: state of each submitted future
    sessions,       \* scrape_republika_batch: the browser session of each task
    db,             \* the articles table of mbg.db, rows in insertion order
    call            \* one call of a helper function: its name, input, result

vars == <<site, pc, pg, list_rows, urls, idx, out, errors, sources_bound,
          browser, log, written, exit_status, search_only, scrape_content,
          page_range, pending, max_articles, futures, sessions, db, call>>

\* the state outside the scraping scripts: the batch worker pool, the article
\* store, the helper function under call
others == <<futures, sessions, db, call>>
\* the state of the scraping scripts
scraper == <<site, pc, pg, list_rows, urls, idx, out, errors, sources_bound,
             browser, log, written, exit_status, search_only, scrape_content,
             page_range, pending, max_articles>>

-----------------------------------------------------------------------------
(* Bounds of the model *)

MaxPage == 3        \* page_end of every run
MaxItems == 2       \* article anchors on one listing page
MaxRows == 2        \* article anchors accumulated over one run

(* Program constants *)

PageStart == 1      \* page_start / start_page / page
DefaultMaxArticles == 50    \* default of --max-articles

-----------------------------------------------------------------------------
(* Data *)

Sites == {"detik", "kompas", "tempo", "tribun", "pr", "republika"}

\* A url is kept as its parts: the host ("site" is the site's own host),
\* the article id in the path, and the query string.
SiteUrls == {[host |-> "site", id |-> i, query |-> ""] : i \in {"a1", "a2"}}
OtherUrl == [host |-> "other", id |-> "x1", query |-> ""]

\* A title is the sequence of its words.
Titles == {<<"Berita", "A">>, <<"Berita", "B">>, <<"VIDEO", "C">>}
NoTitle == <<>>

\* str.lower() on one word
LowerWord(w) ==
    CASE w = "VIDEO" -> "video"
      [] w = "Berita" -> "berita"
      [] w = "A" -> "a"
      [] w = "B" -> "b"
      [] w = "C" -> "c"
      [] OTHER -> w

\* "video" in title.lower()
HasVideo(title) == \E i \in 1..Len(title) : LowerWord(title[i]) = "video"

\* BASE_URL in url
InBase(u) == u.host = "site"

\* The anchors of a rendered listing page that have the shape of an article
\* url.  Only the pikiran-rakyat fallback strategy admits other hosts.
\* The sites that test no title for "video" are given two of the titles.
Anchors(s) ==
    IF s \in {"pr", "republika"}
    THEN [url : SiteUrls, title : {<<"Berita", "A">>, <<"VIDEO", "C">>}]
         \cup (IF s = "pr" THEN {[url |-> OtherUrl, title |-> <<"Berita", "A">>]}
               ELSE {})
    ELSE [url : SiteUrls, title : Titles]
PageContents(s) == UNION {[1..k -> Anchors(s)] : k \in 0..MaxItems}

\* published_wib of a detik list row
ListDate == "Rabu, 17 Des 2025 02:03 WIB"
\* what a detail page that parses yields
DetailTitles == {NoTitle, <<"Judul", "Detail">>}
DetailDate == "2025-12-17 09:03:00"
DetailContent == "isi artikel"
DetailAuthor == "penulis"

ListRow(u, t, d, p) == [url |-> u, title_list |-> t, published_wib |-> d, page |-> p]

\* dedup by url, first occurrence kept
RECURSIVE DedupRows(_, _)
DedupRows(rows, seen) ==
    IF rows = <<>> THEN <<>>
    ELSE IF Head(rows).url \in seen THEN DedupRows(Tail(rows), seen)
    ELSE <<Head(rows)>> \o DedupRows(Tail(rows), seen \cup {Head(rows).url})

\* list(dict.fromkeys(seq))
RECURSIVE FromKeys(_, _)
FromKeys(seq, seen) ==
    IF seq = <<>> THEN <<>>
    ELSE IF Head(seq) \in seen THEN FromKeys(Tail(seq), seen)
    ELSE <<Head(seq)>> \o FromKeys(Tail(seq), seen \cup {Head(seq)})

UrlsOf(rows) == [i \in 1..Len(rows) |-> rows[i].url]

BaseRowLast(rows, u) ==
    IF \E i \in 1..Len(rows) : rows[i].url = u
    THEN rows[CHOOSE i \in 1..Len(rows) :
                 /\ rows[i].url = u
                 /\ \A j \in (i + 1)..Len(rows) : rows[j].url # u]
    ELSE ListRow(u, NoTitle, "", 0)

\* next((x for x in list_rows if x["url"] == u), {})
BaseRow(rows, u) ==
    IF \E i \in 1..Len(rows) : rows[i].url = u
    THEN rows[CHOOSE i \in 1..Len(rows) :
                 /\ rows[i].url = u
                 /\ \A j \in 1..(i - 1) : rows[j].url # u]
    ELSE ListRow(u, NoTitle, "", 0)

\* one row of the output table
OutRow(s, tgl, judul, content, author, u) ==
    [sumber |-> s, tanggal |-> tgl, judul |-> judul, content |-> content,
     author |-> author, url |-> u]

-----------------------------------------------------------------------------
(* History *)

Nav(l, e) == Append(l, e)
ListNav(p, n) ==
    [t |-> "list", page |-> p, n |-> n, url |-> OtherUrl, res |-> "ok",
     title |-> NoTitle]
ListFail(p) ==
    [t |-> "list", page |-> p, n |-> -1, url |-> OtherUrl, res |-> "raise",
     title |-> NoTitle]
\* a detail navigation and how the try block around it ended: "ok", "raise"
\* (an exception reached the handler) or "parse_error" (an error was returned)
\* d: what the detail page gave, its outcome and the title parsed from it
DetailNav(u, d) ==
    [t |-> "detail", page |-> 0, n |-> 0, url |-> u,
     res |-> IF d.res \in {"ok", "parse_error"} THEN d.res ELSE "raise",
     title |-> d.title_detail]
SleepEv == [t |-> "sleep", page |-> 0, n |-> 0, url |-> OtherUrl, res |-> "ok",
            title |-> NoTitle]
\* time.sleep(random.uniform(a, b)); consecutive sleeps are one entry
Sleep(l) == IF l # <<>> /\ l[Len(l)].t = "sleep" THEN l ELSE Append(l, SleepEv)

\* no helper function is under call
NoCall == [fn |-> "none", arg |-> <<>>, ret |-> <<>>, done |-> FALSE,
           raised |-> FALSE]

-----------------------------------------------------------------------------
(* Initial state: a script has been started with its arguments *)

Init ==
    /\ site \in Sites
    /\ pc = "start"
    /\ pg = PageStart
    /\ list_rows = <<>>
    /\ urls = <<>>
    /\ idx = 0
    /\ out = <<>>
    /\ errors = <<>>
    /\ sources_bound = FALSE
    /\ browser = "none"
    /\ log = <<>>
    /\ written = {}
    /\ exit_status = -1
    /\ search_only \in (IF site = "pr" THEN BOOLEAN ELSE {FALSE})
    /\ scrape_content \in (IF site = "republika" THEN BOOLEAN ELSE {FALSE})
    /\ page_range \in (IF site = "republika"
                        THEN {<<PageStart, MaxPage>>, <<PageStart + 1, MaxPage>>}
                        ELSE {<<PageStart, MaxPage>>})
    /\ pending = {}
    /\ max_articles \in (IF site = "pr" THEN {1, DefaultMaxArticles}
                          ELSE {DefaultMaxArticles})
    /\ futures = <<>>
    /\ sessions = <<>>
    /\ db = <<>>
    /\ call = NoCall

-----------------------------------------------------------------------------
(* Steps shared by the scripts *)

\* p.chromium.launch(...) and the page set-up; the launch may raise, and the
\* exception leaves the orchestrator.
Launch(s) ==
    /\ site = s /\ pc = "start"
    /\ \/ browser' = "open" /\ pc' = "listing"
       \/ browser' = "none" /\ pc' = "raised"
    /\ UNCHANGED <<others, max_articles, site, pg, list_rows, urls, idx, out, errors, sources_bound,
                   log, written, exit_status, search_only, scrape_content,
                   page_range, pending>>

\* if __name__ == "__main__": a script that calls the orchestrator directly
\* exits 0 when it returns and 1 when an exception escapes it.
ScriptExit(s) ==
    /\ site = s /\ pc \in {"returned", "raised"}
    /\ exit_status' = IF pc = "returned" THEN 0 ELSE 1
    /\ pc' = "exited"
    /\ UNCHANGED <<others, max_articles, site, pg, list_rows, urls, idx, out, errors, sources_bound,
                   browser, log, written, search_only, scrape_content,
                   page_range, pending>>

\* the variables no listing step changes
ListFrame == <<others, max_articles, site, urls, idx, out, sources_bound, browser, written,
               exit_status, search_only, scrape_content, page_range, pending>>
\* the variables no detail step changes
DetailFrame == <<others, max_articles, site, pg, list_rows, urls, browser, written, exit_status,
                 search_only, scrape_content, page_range, pending>>
\* the variables neither the dedup step nor the final step of a run changes
RunFrame == <<others, max_articles, site, pg, list_rows, idx, errors, sources_bound, exit_status,
              search_only, scrape_content, page_range, pending>>

-----------------------------------------------------------------------------
(* What one detail page can do *)

OkResults == {[res |-> "ok", title_detail |-> t] : t \in DetailTitles}
Raises(kinds) == {[res |-> k, title_detail |-> NoTitle] : k \in kinds}

\* the loop `for i, u in enumerate(urls, start=1)` moves on
NextUrl == /\ idx' = idx + 1
           /\ pc' = IF idx + 1 >= Len(urls) THEN "finish" ELSE "detail"

-----------------------------------------------------------------------------
(* detik: scrape_tag_news_to_csv *)

\* parse_tag_news_page: every article anchor becomes a row with the list date
\* and the list title; rows are deduplicated by url.
parse_tag_news_page(anchors, p) ==
    DedupRows([i \in 1..Len(anchors) |->
                  ListRow(anchors[i].url, anchors[i].title, ListDate, p)], {})

\* the row the except branch appends: list date, list title, nothing else
detik_degraded(base, u) ==
    OutRow("detik", base.published_wib, base.title_list, "", "", u)

DetikLaunch == Launch("detik")

\* one iteration of `for pg in range(page_start, page_end + 1)`
DetikListPage ==
    /\ site = "detik" /\ pc = "listing"
    /\ \/ \* fetch_rendered raises: nothing catches it
          /\ log' = Nav(log, ListFail(pg))
          /\ pc' = "raised"
          /\ UNCHANGED <<pg, list_rows>>
       \/ \E anchors \in PageContents(site) :
            LET rows == parse_tag_news_page(anchors, pg)
                filtered_rows == SelectSeq(rows, LAMBDA r : ~HasVideo(r.title_list))
            IN /\ Len(list_rows) + Len(rows) <= MaxRows
               /\ IF rows = <<>>
                  THEN /\ log' = Nav(log, ListNav(pg, 0))
                       /\ pc' = "dedup"
                       /\ UNCHANGED <<pg, list_rows>>
                  ELSE /\ list_rows' = list_rows \o filtered_rows
                       /\ log' = Sleep(Nav(log, ListNav(pg, Len(rows))))
                       /\ pg' = pg + 1
                       /\ pc' = IF pg + 1 > MaxPage THEN "dedup" ELSE "listing"
    /\ UNCHANGED errors
    /\ UNCHANGED ListFrame

\* urls = list(dict.fromkeys([r["url"] for r in list_rows]))
DetikDedup ==
    /\ site = "detik" /\ pc = "dedup"
    /\ urls' = FromKeys(UrlsOf(list_rows), {})
    /\ pc' = IF urls' = <<>> THEN "finish" ELSE "detail"
    /\ UNCHANGED <<out, browser, log, written>>
    /\ UNCHANGED RunFrame

\* one iteration of `for i, u in enumerate(urls, start=1)`
DetikDetail ==
    /\ site = "detik" /\ pc = "detail"
    /\ LET u == urls[idx + 1]
           base == BaseRow(list_rows, u)
           degraded == detik_degraded(base, u)
       IN \E d \in OkResults \cup Raises({"raise_fetch", "raise_parse", "raise_date"}) :
            \/ /\ d.res = "ok"
               /\ sources_bound' = TRUE
               /\ out' = Append(out, OutRow("detik", DetailDate, base.title_list,
                                            DetailContent, DetailAuthor, u))
               /\ log' = Sleep(Nav(log, DetailNav(u, d)))
               /\ NextUrl
            \/ \* datetime(...) raises after `sources` was assigned
               /\ d.res = "raise_date"
               /\ sources_bound' = TRUE
               /\ out' = Append(out, degraded)
               /\ log' = Sleep(Nav(log, DetailNav(u, d)))
               /\ NextUrl
            \/ \* fetch or parse raises; the handler reads `sources`
               /\ d.res \in {"raise_fetch", "raise_parse"}
               /\ sources_bound
               /\ out' = Append(out, degraded)
               /\ log' = Sleep(Nav(log, DetailNav(u, d)))
               /\ NextUrl
               /\ UNCHANGED sources_bound
            \/ \* ... which is unbound until a first page has parsed
               /\ d.res \in {"raise_fetch", "raise_parse"}
               /\ ~sources_bound
               /\ log' = Nav(log, DetailNav(u, d))
               /\ pc' = "raised"
               /\ UNCHANGED <<out, idx, sources_bound>>
    /\ UNCHANGED errors
    /\ UNCHANGED DetailFrame

\* browser.close(), the DataFrame and df.to_csv
DetikFinish ==
    /\ site = "detik" /\ pc = "finish"
    /\ browser' = "closed"
    /\ written' = written \cup {"csv"}
    /\ pc' = "returned"
    /\ UNCHANGED <<urls, out, log>>
    /\ UNCHANGED RunFrame

DetikMain == ScriptExit("detik")

-----------------------------------------------------------------------------
(* kompas: scrape_kompas_search_to_csv *)

\* parse_kompas_search_page: article anchors with their text as title,
\* deduplicated by url; the title is not tested for "video".
parse_kompas_search_page(anchors, p) ==
    DedupRows([i \in 1..Len(anchors) |->
                  ListRow(anchors[i].url, anchors[i].title, "", p)], {})

\* the row the except branch appends
kompas_degraded_mut(base, u) == OutRow("kompas", "", NoTitle, "", "", u)
kompas_degraded(base, u) == OutRow("kompas", "", base.title_list, "", "", u)

KompasLaunch == Launch("kompas")

KompasListPage ==
    /\ site = "kompas" /\ pc = "listing"
    /\ \/ \* fetch_rendered raises: nothing catches it
          /\ log' = Nav(log, ListFail(pg))
          /\ pc' = "raised"
          /\ UNCHANGED <<pg, list_rows>>
       \/ \E anchors \in PageContents(site) :
            LET rows == parse_kompas_search_page(anchors, pg)
            IN /\ Len(list_rows) + Len(rows) <= MaxRows
               /\ IF rows = <<>>
                  THEN /\ log' = Nav(log, ListNav(pg, 0))
                       /\ pc' = "dedup"
                       /\ UNCHANGED <<pg, list_rows>>
                  ELSE /\ list_rows' = list_rows \o rows
                       /\ log' = Sleep(Nav(log, ListNav(pg, Len(rows))))
                       /\ pg' = pg + 1
                       /\ pc' = IF pg + 1 > MaxPage THEN "dedup" ELSE "listing"
    /\ UNCHANGED errors
    /\ UNCHANGED ListFrame

KompasDedup ==
    /\ site = "kompas" /\ pc = "dedup"
    /\ urls' = FromKeys(UrlsOf(list_rows), {})
    /\ pc' = IF urls' = <<>> THEN "finish" ELSE "detail"
    /\ UNCHANGED <<out, browser, log, written>>
    /\ UNCHANGED RunFrame

KompasDetail ==
    /\ site = "kompas" /\ pc = "detail"
    /\ LET u == urls[idx + 1]
           base == BaseRow(list_rows, u)
       IN \E d \in OkResults \cup Raises({"raise_fetch", "raise_parse"}) :
            /\ out' = Append(out,
                  IF d.res = "ok"
                  THEN OutRow("kompas", DetailDate,
                              IF d.title_detail # NoTitle THEN d.title_detail
                              ELSE base.title_list,
                              DetailContent, DetailAuthor, u)
                  ELSE kompas_degraded(base, u))
            /\ log' = Sleep(Nav(log, DetailNav(u, d)))
            /\ NextUrl
    /\ UNCHANGED <<errors, sources_bound>>
    /\ UNCHANGED DetailFrame

KompasFinish ==
    /\ site = "kompas" /\ pc = "finish"
    /\ browser' = "closed"
    /\ written' = written \cup {"csv"}
    /\ pc' = "returned"
    /\ UNCHANGED <<urls, out, log>>
    /\ UNCHANGED RunFrame

KompasMain == ScriptExit("kompas")

-----------------------------------------------------------------------------
(* tempo: scrape_tempo_search_to_csv *)

\* parse_search_page: article anchors, deduplicated by url
parse_search_page(anchors, p) ==
    DedupRows([i \in 1..Len(anchors) |->
                  ListRow(anchors[i].url, anchors[i].title, "", p)], {})

\* the row the except branch appends
tempo_degraded(judul_default, u) == OutRow("tempo", "", judul_default, "", "", u)

TempoLaunch == Launch("tempo")

TempoListPage ==
    /\ site = "tempo" /\ pc = "listing"
    /\ \/ \* fetch_rendered raises: nothing catches it
          /\ log' = Nav(log, ListFail(pg))
          /\ pc' = "raised"
          /\ UNCHANGED <<pg, list_rows>>
       \/ \E anchors \in PageContents(site) :
            LET rows == parse_search_page(anchors, pg)
                filtered_rows == SelectSeq(rows, LAMBDA r : ~HasVideo(r.title_list))
            IN /\ Len(list_rows) + Len(rows) <= MaxRows
               /\ IF rows = <<>>
                  THEN /\ log' = Nav(log, ListNav(pg, 0))
                       /\ pc' = "dedup"
                       /\ UNCHANGED <<pg, list_rows>>
                  ELSE /\ list_rows' = list_rows \o filtered_rows
                       /\ log' = Sleep(Nav(log, ListNav(pg, Len(rows))))
                       /\ pg' = pg + 1
                       /\ pc' = IF pg + 1 > MaxPage THEN "dedup" ELSE "listing"
    /\ UNCHANGED errors
    /\ UNCHANGED ListFrame

TempoDedup ==
    /\ site = "tempo" /\ pc = "dedup"
    /\ urls' = FromKeys(UrlsOf(list_rows), {})
    /\ pc' = IF urls' = <<>> THEN "finish" ELSE "detail"
    /\ UNCHANGED <<out, browser, log, written>>
    /\ UNCHANGED RunFrame

TempoDetail ==
    /\ site = "tempo" /\ pc = "detail"
    /\ LET u == urls[idx + 1]
           judul_default == BaseRow(list_rows, u).title_list
       IN \E d \in OkResults \cup Raises({"raise_fetch", "raise_parse"}) :
            /\ out' = Append(out,
                  IF d.res = "ok"
                  THEN OutRow("tempo", DetailDate,
                              IF d.title_detail # NoTitle THEN d.title_detail
                              ELSE judul_default,
                              DetailContent, DetailAuthor, u)
                  ELSE tempo_degraded(judul_default, u))
            /\ log' = Sleep(Nav(log, DetailNav(u, d)))
            /\ NextUrl
    /\ UNCHANGED <<errors, sources_bound>>
    /\ UNCHANGED DetailFrame

\* context.close(), browser.close(), the DataFrame and df.to_csv
TempoFinish ==
    /\ site = "tempo" /\ pc = "finish"
    /\ browser' = "closed"
    /\ written' = written \cup {"csv"}
    /\ pc' = "returned"
    /\ UNCHANGED <<urls, out, log>>
    /\ UNCHANGED RunFrame

TempoMain == ScriptExit("tempo")

-----------------------------------------------------------------------------
(* tribunnews: scrape_tribun_tag_to_csv *)

\* add_page_all: the query becomes page=all
add_page_all(u) == IF u.query = "page=all" THEN u ELSE [u EXCEPT !.query = "page=all"]

\* parse_tag_page: anchors whose title contains "video" are skipped, the rows
\* keep the url only, deduplicated
parse_tag_page(anchors) ==
    LET kept == SelectSeq(anchors, LAMBDA a : a.title # NoTitle /\ ~HasVideo(a.title))
    IN DedupRows([i \in 1..Len(kept) |-> ListRow(kept[i].url, NoTitle, "", 0)], {})

TribunLaunch == Launch("tribun")

TribunListPage ==
    /\ site = "tribun" /\ pc = "listing"
    /\ \/ \* page.goto raises: `except: break`
          /\ log' = Nav(log, ListFail(pg))
          /\ pc' = "dedup"
          /\ UNCHANGED <<pg, list_rows>>
       \/ \E anchors \in PageContents(site) :
            LET links == parse_tag_page(anchors)
            IN /\ Len(list_rows) + Len(links) <= MaxRows
               /\ IF links = <<>>
                  THEN /\ log' = Nav(log, ListNav(pg, 0))
                       /\ pc' = "dedup"
                       /\ UNCHANGED <<pg, list_rows>>
                  ELSE /\ list_rows' = list_rows \o
                            [i \in 1..Len(links) |->
                                [links[i] EXCEPT !.url = add_page_all(links[i].url)]]
                       /\ log' = Sleep(Nav(log, ListNav(pg, Len(links))))
                       /\ pg' = pg + 1
                       /\ pc' = IF pg + 1 > MaxPage THEN "dedup" ELSE "listing"
    /\ UNCHANGED errors
    /\ UNCHANGED ListFrame

\* all_urls = list(dict.fromkeys(all_urls))
TribunDedup ==
    /\ site = "tribun" /\ pc = "dedup"
    /\ urls' = FromKeys(UrlsOf(list_rows), {})
    /\ pc' = IF urls' = <<>> THEN "finish" ELSE "detail"
    /\ UNCHANGED <<out, browser, log, written>>
    /\ UNCHANGED RunFrame

\* a detail page that raises is printed and leaves no row
TribunDetail ==
    /\ site = "tribun" /\ pc = "detail"
    /\ LET u == urls[idx + 1]
       IN \E d \in OkResults \cup Raises({"raise_fetch", "raise_parse"}) :
            /\ out' = IF d.res = "ok"
                      THEN Append(out, OutRow("tribunnews", DetailDate, d.title_detail,
                                              DetailContent, DetailAuthor, u))
                      ELSE out
            /\ log' = Sleep(Nav(log, DetailNav(u, d)))
            /\ NextUrl
    /\ UNCHANGED <<errors, sources_bound>>
    /\ UNCHANGED DetailFrame

TribunFinish ==
    /\ site = "tribun" /\ pc = "finish"
    /\ browser' = "closed"
    /\ written' = written \cup {"csv"}
    /\ pc' = "returned"
    /\ UNCHANGED <<urls, out, log>>
    /\ UNCHANGED RunFrame

TribunMain == ScriptExit("tribun")

-----------------------------------------------------------------------------
(* pikiran-rakyat: search_pikiran_rakyat, export_results, main *)

\* entries of the errors list: "Page <n>: ..." and "<url>: ..."
PageError(p) == [kind |-> "page", page |-> p, url |-> OtherUrl]
\* an entry that does not name the url it is about
UrlErrorUnnamed(u) == [kind |-> "url", page |-> 0, url |-> OtherUrl]
UrlError(u) == [kind |-> "url", page |-> 0, url |-> u]

\* `if len(results) < 3`: the link-pattern fallback runs
FallbackBelow == 3

\* parse_search_results: the latest__title items (links of the site itself),
\* then, when fewer than three were found, every other article-shaped link
\* not yet in the results; deduplicated by url.
parse_search_results(anchors, p) ==
    LET row(a) == ListRow(a.url, a.title, "", p)
        all == [i \in 1..Len(anchors) |-> row(anchors[i])]
        results == SelectSeq(all, LAMBDA r : InBase(r.url))
        fallback == SelectSeq(all, LAMBDA r : ~InBase(r.url))
    IN DedupRows(IF Len(results) < FallbackBelow THEN results \o fallback
                 ELSE results, {})

\* the launch is outside the try/finally of search_pikiran_rakyat
PrLaunch == Launch("pr")

\* one iteration of `for page_num in range(start_page, end_page + 1)`
PrListPage ==
    /\ site = "pr" /\ pc = "listing"
    /\ \/ \* page.goto raises: the error is recorded, `continue`
          /\ log' = Nav(log, ListFail(pg))
          /\ errors' = Append(errors, PageError(pg))
          /\ pg' = pg + 1
          /\ pc' = IF pg + 1 > MaxPage THEN "dedup" ELSE "listing"
          /\ UNCHANGED list_rows
       \/ \E anchors \in PageContents(site) :
            LET page_results == parse_search_results(anchors, pg)
            IN /\ Len(list_rows) + Len(page_results) <= MaxRows
               /\ UNCHANGED errors
               /\ IF page_results = <<>> /\ pg > PageStart + 1
                  THEN \* break
                       /\ log' = Sleep(Nav(log, ListNav(pg, 0)))
                       /\ pc' = "dedup"
                       /\ UNCHANGED <<pg, list_rows>>
                  ELSE /\ list_rows' = list_rows \o page_results
                       /\ log' = Sleep(Nav(log, ListNav(pg, Len(page_results))))
                       /\ pg' = pg + 1
                       /\ pc' = IF pg + 1 > MaxPage THEN "dedup" ELSE "listing"
    /\ UNCHANGED ListFrame

\* PHASE 2: unique_search_data
PrDedup ==
    /\ site = "pr" /\ pc = "dedup"
    /\ urls' = FromKeys(SelectSeq(UrlsOf(list_rows), InBase), {})
    /\ pc' = IF urls' = <<>> THEN "finish" ELSE "detail"
    /\ UNCHANGED <<out, browser, log, written>>
    /\ UNCHANGED RunFrame

\* one iteration of PHASE 3; parse_article_page returns (None, error)
\* instead of raising
PrDetail ==
    /\ site = "pr" /\ pc = "detail"
    /\ LET u == urls[idx + 1]
       IN \E d \in OkResults \cup Raises({"raise_fetch", "parse_error"}) :
            /\ IF d.res = "ok"
               THEN /\ out' = Append(out,
                          OutRow("pikiran-rakyat", DetailDate,
                                 IF d.title_detail # NoTitle THEN d.title_detail
                                 ELSE <<"Judul", "tidak", "ditemukan">>,
                                 DetailContent, DetailAuthor, u))
                    /\ UNCHANGED errors
               ELSE /\ errors' = Append(errors, UrlError(u))
                    /\ UNCHANGED out
            /\ log' = IF d.res = "raise_fetch" THEN Nav(log, DetailNav(u, d))
                      ELSE Sleep(Nav(log, DetailNav(u, d)))
            /\ NextUrl
    /\ UNCHANGED sources_bound
    /\ UNCHANGED DetailFrame

\* finally: context.close(); browser.close(); then result_data is returned
PrFinish ==
    /\ site = "pr" /\ pc = "finish"
    /\ browser' = "closed"
    /\ pc' = "returned"
    /\ UNCHANGED <<urls, out, log, written>>
    /\ UNCHANGED RunFrame

\* export_results: the article files only when there are articles, the
\* search-result file only when there are search results
export_results(articles, search_results) ==
    (IF articles # <<>> THEN {"articles_csv", "articles_excel"} ELSE {})
    \cup (IF search_results # <<>> THEN {"search_results"} ELSE {})

\* main: --search-only prints, otherwise the results are exported; any
\* exception is printed and logged, and main returns
PrMain ==
    /\ site = "pr" /\ pc \in {"returned", "raised"}
    /\ written' = IF pc = "returned" /\ ~search_only
                  THEN written \cup export_results(out, list_rows)
                  ELSE written
    /\ exit_status' = 0
    /\ pc' = "exited"
    /\ UNCHANGED <<others, max_articles, site, pg, list_rows, urls, idx, out, errors, sources_bound,
                   browser, log, search_only, scrape_content, page_range, pending>>

-----------------------------------------------------------------------------
(* republika: scrape_republika_search, scrape_republika_batch and the      *)
(* command line of scrap_republika.py                                       *)

\* the browser of scrape_republika_search; a launch failure reaches main
RepLaunch == Launch("republika")

\* one iteration of `while page <= max_pages`, max_pages being end_page
RepSearchPage ==
    /\ site = "republika" /\ pc = "listing"
    /\ \/ \* any exception on the page: recorded in status_msgs, break
          /\ log' = Nav(log, ListFail(pg))
          /\ pc' = "dedup"
          /\ UNCHANGED <<pg, list_rows>>
       \/ \E anchors \in PageContents(site), has_next_page \in BOOLEAN :
            LET page_results == [i \in 1..Len(anchors) |->
                    ListRow(anchors[i].url, anchors[i].title, "", pg)]
            IN /\ Len(list_rows) + Len(page_results) <= MaxRows
               /\ IF page_results = <<>>
                  THEN /\ log' = Sleep(Nav(log, ListNav(pg, 0)))
                       /\ pc' = "dedup"
                       /\ UNCHANGED <<pg, list_rows>>
                  ELSE /\ list_rows' = list_rows \o page_results
                       /\ IF has_next_page
                          THEN /\ pg' = pg + 1
                               /\ pc' = IF pg + 1 > page_range[2] THEN "dedup"
                                        ELSE "listing"
                          ELSE /\ pc' = "dedup"
                               /\ UNCHANGED pg
                       /\ log' = Sleep(Nav(log, ListNav(pg, Len(page_results))))
    /\ UNCHANGED errors
    /\ UNCHANGED ListFrame

\* the end of scrape_republika_search (close, unique_results) and main up to
\* the batch: the page-range filter, then either the search rows or the urls
\* to scrape
RepDedup ==
    /\ site = "republika" /\ pc = "dedup"
    /\ LET unique_results == DedupRows(list_rows, {})
           filtered == SelectSeq(unique_results,
                          LAMBDA r : page_range[1] <= r.page /\ r.page <= page_range[2])
           rows == [i \in 1..Len(filtered) |->
                       OutRow("republika", "", filtered[i].title_list, "", "",
                              filtered[i].url)]
       IN /\ browser' = "closed"
          /\ IF scrape_content /\ filtered # <<>>
             THEN /\ urls' = UrlsOf(filtered)
                  /\ pending' = 1..Len(filtered)
                  /\ pc' = "batch"
                  /\ UNCHANGED out
             ELSE /\ out' = out \o rows
                  /\ pc' = "finish"
                  /\ UNCHANGED <<urls, pending>>
    /\ UNCHANGED <<others, max_articles, site, pg, list_rows, idx, errors, sources_bound, log, written,
                   exit_status, search_only, scrape_content, page_range>>

\* scrape_republika_batch: the next future of as_completed is collected;
\* extract_republika_article returned (metadata, None) or (None, error)
RepBatchCollect ==
    /\ site = "republika" /\ pc = "batch"
    /\ \E i \in pending, d \in OkResults \cup Raises({"error"}) :
         /\ pending' = pending \ {i}
         /\ IF d.res = "ok"
            THEN /\ out' = Append(out,
                       OutRow("republika", DetailDate, d.title_detail,
                              DetailContent, DetailAuthor, urls[i]))
                 /\ UNCHANGED errors
            ELSE /\ errors' = Append(errors, UrlError(urls[i]))
                 /\ UNCHANGED out
         /\ log' = Nav(log, DetailNav(urls[i], d))
         /\ idx' = idx + 1
         /\ pc' = IF pending' = {} THEN "finish" ELSE "batch"
    /\ UNCHANGED <<others, max_articles, site, pg, list_rows, urls, sources_bound, browser, written,
                   exit_status, search_only, scrape_content, page_range>>

\* main: "Remove duplicates", then sys.exit(1) when nothing is left,
\* otherwise the file is saved
RepFinish ==
    /\ site = "republika" /\ pc = "finish"
    /\ LET unique_articles == DedupRows(out, {})
       IN IF unique_articles = <<>>
          THEN /\ exit_status' = 1
               /\ UNCHANGED written
          ELSE /\ exit_status' = 0
               /\ written' = written \cup {"csv"}
    /\ pc' = "exited"
    /\ UNCHANGED <<others, max_articles, site, pg, list_rows, urls, idx, out, errors, sources_bound,
                   browser, log, search_only, scrape_content, page_range, pending>>

\* main: `except Exception` prints the error and calls sys.exit(1)
RepMainError ==
    /\ site = "republika" /\ pc = "raised"
    /\ exit_status' = 1
    /\ pc' = "exited"
    /\ UNCHANGED <<others, max_articles, site, pg, list_rows, urls, idx, out, errors, sources_bound,
                   browser, log, written, search_only, scrape_content,
                   page_range, pending>>

-----------------------------------------------------------------------------
Next ==
    \/ DetikLaunch \/ DetikListPage \/ DetikDedup \/ DetikDetail
    \/ DetikFinish \/ DetikMain
    \/ KompasLaunch \/ KompasListPage \/ KompasDedup \/ KompasDetail
    \/ KompasFinish \/ KompasMain
    \/ TempoLaunch \/ TempoListPage \/ TempoDedup \/ TempoDetail
    \/ TempoFinish \/ TempoMain
    \/ TribunLaunch \/ TribunListPage \/ TribunDedup \/ TribunDetail
    \/ TribunFinish \/ TribunMain
    \/ PrLaunch \/ PrListPage \/ PrDedup \/ PrDetail \/ PrFinish \/ PrMain
    \/ RepLaunch \/ RepSearchPage \/ RepDedup \/ RepBatchCollect
    \/ RepFinish \/ RepMainError

Spec == Init /\ [][Next]_vars

-----------------------------------------------------------------------------
(* republika: scrape_republika_batch, its thread pool seen step by step *)

\* longest url list handed to the batch
MaxUrls == 3
\* largest worker-pool size tried
MaxWorkers == 2

\* the url lists of the batch, duplicates included
UrlLists == UNION {[1..k -> SiteUrls] : k \in 0..MaxUrls}

\* the dict keyed by url, which keeps one future per distinct url
future_to_url_by_url(us) ==
    [i \in {k \in 1..Len(us) : \A j \in 1..(k - 1) : us[j] # us[k]} |-> us[i]]
\* future_to_url = {executor.submit(process_url, url): url for url in urls}:
\* one future per element of the list, each mapped to its url
future_to_url(us) == [i \in 1..Len(us) |-> us[i]]

\* extract_republika_article has not launched a browser yet
NoSession == [state |-> "none", launched_by |-> 0, users |-> {}]

\* one browser for the whole batch, launched by the first task
browser_of_shared(i) == 1
\* the browser a task navigates with: the local `browser` of its own call of
\* extract_republika_article, i.e. the one that call launched
browser_of(i) == i

\* the tasks a worker has started and not finished
InProgress(fs) == {i \in DOMAIN fs : fs[i] \in {"running", "browsing"}}

\* a call scrape_republika_batch(urls, max_workers) has submitted its futures
BatchInit ==
    /\ site = "republika"
    /\ pc = "batch"
    /\ urls \in UrlLists
    /\ pending = DOMAIN future_to_url(urls)
    /\ futures = [i \in DOMAIN future_to_url(urls) |-> "queued"]
    /\ sessions = [i \in DOMAIN future_to_url(urls) |-> NoSession]
    /\ call \in {[NoCall EXCEPT !.fn = "scrape_republika_batch", !.arg = <<w>>] :
                   w \in 1..MaxWorkers}
    /\ out = <<>>
    /\ errors = <<>>
    /\ pg = PageStart /\ list_rows = <<>> /\ idx = 0
    /\ sources_bound = FALSE /\ browser = "closed" /\ log = <<>>
    /\ written = {} /\ exit_status = -1
    /\ search_only = FALSE /\ scrape_content = TRUE
    /\ page_range = <<PageStart, MaxPage>>
    /\ max_articles = DefaultMaxArticles
    /\ db = <<>>

\* what no step of the batch changes
BatchFrame == <<max_articles, site, urls, pg, list_rows, idx, sources_bound, browser, log,
                written, exit_status, search_only, scrape_content, page_range,
                db>>

\* a free worker of the pool takes the oldest queued task
BatchTake ==
    /\ site = "republika" /\ pc = "batch" /\ call.fn = "scrape_republika_batch"
    /\ Cardinality(InProgress(futures)) < call.arg[1]
    /\ \E i \in DOMAIN futures :
         /\ futures[i] = "queued"
         /\ \A j \in DOMAIN futures : j < i => futures[j] # "queued"
         /\ futures' = [futures EXCEPT ![i] = "running"]
    /\ UNCHANGED <<pc, pending, out, errors, call, sessions>>
    /\ UNCHANGED BatchFrame

\* process_url in a worker, first half: extract_republika_article launches
\* its own browser and context; a failing launch is caught and gives the
\* dict {"error", "url"}
BatchLaunch ==
    /\ site = "republika" /\ pc = "batch" /\ call.fn = "scrape_republika_batch"
    /\ \E i \in DOMAIN futures :
         /\ futures[i] = "running"
         /\ \/ /\ futures' = [futures EXCEPT ![i] = "browsing"]
               /\ sessions' = [sessions EXCEPT ![i] =
                      [state |-> "open", launched_by |-> i, users |-> {}]]
            \/ /\ futures' = [futures EXCEPT ![i] = "error_dict"]
               /\ UNCHANGED sessions
    /\ UNCHANGED <<pc, pending, out, errors, call>>
    /\ UNCHANGED BatchFrame

\* process_url in a worker, second half: the page is fetched and parsed with
\* the task's browser and `finally` closes context and browser;
\* extract_republika_article returns the metadata, or (None, error), or
\* something inside process_url raises; the last two both give the dict
\* {"error", "url"}
BatchProcess ==
    /\ site = "republika" /\ pc = "batch" /\ call.fn = "scrape_republika_batch"
    /\ \E i \in DOMAIN futures, r \in {"ok", "error", "raise"} :
         /\ futures[i] = "browsing"
         /\ futures' = [futures EXCEPT ![i] = IF r = "ok" THEN "metadata"
                                              ELSE "error_dict"]
         /\ sessions' = [sessions EXCEPT ![browser_of(i)] =
                [@ EXCEPT !.users = @ \cup {i}, !.state = "closed"]]
    /\ UNCHANGED <<pc, pending, out, errors, call>>
    /\ UNCHANGED BatchFrame

\* the as_completed loop in the calling thread takes a finished future
BatchCollect ==
    /\ site = "republika" /\ pc = "batch" /\ call.fn = "scrape_republika_batch"
    /\ \E i \in pending :
         /\ futures[i] \in {"metadata", "error_dict"}
         /\ pending' = pending \ {i}
         /\ IF futures[i] = "error_dict"
            THEN /\ errors' = Append(errors, UrlError(future_to_url(urls)[i]))
                 /\ UNCHANGED out
            ELSE /\ out' = Append(out,
                       OutRow("republika", DetailDate, <<"Judul", "Detail">>,
                              DetailContent, DetailAuthor, urls[i]))
                 /\ UNCHANGED errors
    /\ UNCHANGED <<pc, futures, sessions, call>>
    /\ UNCHANGED BatchFrame

\* every future has been collected: return all_articles, errors
BatchReturn ==
    /\ site = "republika" /\ pc = "batch" /\ call.fn = "scrape_republika_batch"
    /\ pending = {}
    /\ pc' = "returned"
    /\ call' = [call EXCEPT !.ret = <<out, errors>>, !.done = TRUE]
    /\ UNCHANGED <<pending, futures, sessions, out, errors>>
    /\ UNCHANGED BatchFrame

BatchNext ==
    BatchTake \/ BatchLaunch \/ BatchProcess \/ BatchCollect \/ BatchReturn

BatchSpec == BatchInit /\ [][BatchNext]_vars

-----------------------------------------------------------------------------
(* The article store: db.py, ingest_csv_safe and the "Jalankan untuk       *)
(* Pending" handler of app.py, migration_xlmr2indobert.py                  *)

\* most rows the table is let grow to
MaxDbRows == 3
\* most records in one csv file
MaxFile == 2
\* most operations in one history of the store
MaxOps == 4

\* SQL NULL / Python None
NULL == "NULL"
\* an empty url cell of the csv, stored as NULL
NoUrl == [host |-> "", id |-> "", query |-> ""]

\* the columns of the articles table: as init_db creates it, as an older
\* database has it (sentiment_xlmr, no sentiment_indobert), and that older
\* database after migrate_database
Schemas == {"init_db", "legacy", "migrated"}
HasXlmr(columns) == columns \in {"legacy", "migrated"}
HasIndobert(columns) == columns \in {"init_db", "migrated"}

\* the rows a csv file can hold, after the renaming and cleaning of
\* ingest_csv_safe
CsvRecords ==
    { [url |-> [host |-> "site", id |-> "a1", query |-> ""], content |-> "isi 1",
       topic |-> NULL, sentiment_indobert |-> NULL],
      [url |-> [host |-> "site", id |-> "a1", query |-> ""], content |-> "isi 2",
       topic |-> "Kualitas", sentiment_indobert |-> NULL],
      [url |-> [host |-> "site", id |-> "a2", query |-> ""], content |-> "isi 1",
       topic |-> NULL, sentiment_indobert |-> "POSITIVE"],
      [url |-> NoUrl, content |-> "isi 1",
       topic |-> NULL, sentiment_indobert |-> NULL] }
CsvFiles == UNION {[1..k -> CsvRecords] : k \in 0..MaxFile}

\* what analyze_dual hands back to the handler
AnalyzeDefault == <<"NEUTRAL", "0.0", "NEUTRAL", "0.0", "Lainnya">>
AnalyzeResults == {<<"POSITIVE", "0.9", "NEGATIVE", "0.8", "Anggaran">>,
                   AnalyzeDefault}

\* INSERT OR IGNORE INTO articles (..., sentiment_xlmr, confidence_xlmr)
\* VALUES (..., r.get("sentiment_indobert"), r.get("confidence_indobert")):
\* ignored when the url is stored already (NULL never conflicts)
InsertOrIgnore(rows, r, id, now) ==
    IF r.url # NoUrl /\ \E i \in 1..Len(rows) : rows[i].url = r.url
    THEN rows
    ELSE Append(rows,
           [id |-> id, source |-> "detik", url |-> r.url,
            judul |-> <<"Berita", "A">>, content |-> r.content,
            published_at |-> DetailDate, ingested_at |-> now,
            topic |-> r.topic,
            sentiment_w11wo |-> NULL, confidence_w11wo |-> NULL,
            sentiment_indobert |-> NULL, confidence_indobert |-> NULL,
            sentiment_xlmr |-> r.sentiment_indobert,
            confidence_xlmr |-> NULL])

\* the loop `for r in data`: the table after the file, ids from seq + 1
RECURSIVE InsertAll(_, _, _, _)
InsertAll(rows, file, seq, now) ==
    IF file = <<>> THEN rows
    ELSE LET after == InsertOrIgnore(rows, Head(file), seq + 1, now)
         IN  InsertAll(after, Tail(file),
                       IF Len(after) > Len(rows) THEN seq + 1 ELSE seq, now)

\* UPDATE articles SET ... (no WHERE clause): every row is rewritten
update_article_data_all(rows, article_id, res) ==
    [i \in 1..Len(rows) |->
        [rows[i] EXCEPT !.sentiment_w11wo = res[1], !.confidence_w11wo = res[2],
                        !.sentiment_indobert = res[3],
                        !.confidence_indobert = res[4], !.topic = res[5]]]
\* UPDATE articles SET sentiment_w11wo = ?, confidence_w11wo = ?,
\* sentiment_indobert = ?, confidence_indobert = ?, topic = ? WHERE id = ?
update_article_data(rows, article_id, res) ==
    [i \in 1..Len(rows) |->
        IF rows[i].id = article_id
        THEN [rows[i] EXCEPT !.sentiment_w11wo = res[1], !.confidence_w11wo = res[2],
                             !.sentiment_indobert = res[3],
                             !.confidence_indobert = res[4], !.topic = res[5]]
        ELSE rows[i]]

\* pending_mask: one of the three derived labels is missing
IsPending(row) ==
    \/ row.sentiment_w11wo = NULL
    \/ row.sentiment_indobert = NULL
    \/ row.topic = NULL

NoOp == [op |-> "none", file |-> <<>>, id |-> 0, raised |-> FALSE,
         total_rows |-> 0, inserted |-> 0]

\* the database file exists with one of the three schemas and no rows; the
\* dashboard has called init_db (CREATE TABLE IF NOT EXISTS)
DbInit ==
    /\ db \in {[columns |-> c, rows |-> <<>>, seq |-> 0, now |-> 0, last |-> NoOp] :
                 c \in Schemas}
    /\ site = "app" /\ pc = "dashboard"
    /\ pg = PageStart /\ list_rows = <<>> /\ urls = <<>> /\ idx = 0
    /\ out = <<>> /\ errors = <<>> /\ sources_bound = FALSE
    /\ browser = "none" /\ log = <<>> /\ written = {} /\ exit_status = -1
    /\ search_only = FALSE /\ scrape_content = FALSE
    /\ page_range = <<PageStart, MaxPage>> /\ pending = {}
    /\ max_articles = DefaultMaxArticles
    /\ futures = <<>> /\ sessions = <<>> /\ call = NoCall

\* ingest_csv_safe(file_path): one uploaded file
IngestCsv ==
    /\ site = "app" /\ db.now < MaxOps
    /\ \E file \in CsvFiles :
         /\ Len(db.rows) + Len(file) <= MaxDbRows
         /\ IF file # <<>> /\ ~HasXlmr(db.columns)
            THEN \* no column named sentiment_xlmr: the first execute raises
                 db' = [db EXCEPT !.now = db.now + 1,
                          !.last = [NoOp EXCEPT !.op = "ingest", !.file = file,
                                                !.raised = TRUE]]
            ELSE LET after == InsertAll(db.rows, file, db.seq, db.now + 1)
                     n == Len(after) - Len(db.rows)
                 IN  db' = [db EXCEPT !.rows = after, !.seq = db.seq + n,
                              !.now = db.now + 1,
                              !.last = [NoOp EXCEPT !.op = "ingest", !.file = file,
                                                    !.total_rows = Len(file),
                                                    !.inserted = n]]
    /\ UNCHANGED <<scraper, futures, sessions, call>>

\* one turn of the loop of the "Jalankan untuk Pending" handler: analyze_dual
\* on a pending row, then update_article_data with all five results; when
\* analyze_dual raises the handler ends without an update
RunPending ==
    /\ site = "app" /\ db.now < MaxOps
    /\ HasIndobert(db.columns)
    /\ \E i \in 1..Len(db.rows) :
         /\ IsPending(db.rows[i])
         /\ \/ \E res \in AnalyzeResults :
                 db' = [db EXCEPT
                          !.rows = update_article_data(db.rows, db.rows[i].id, res),
                          !.now = db.now + 1,
                          !.last = [NoOp EXCEPT !.op = "update",
                                                !.id = db.rows[i].id]]
            \/ db' = [db EXCEPT !.now = db.now + 1,
                        !.last = [NoOp EXCEPT !.op = "update",
                                              !.id = db.rows[i].id,
                                              !.raised = TRUE]]
    /\ UNCHANGED <<scraper, futures, sessions, call>>

\* migrate_database: add the indobert columns when missing; when the xlmr
\* columns exist copy them where sentiment_indobert IS NULL
MigrateDatabase ==
    /\ site = "app" /\ db.now < MaxOps
    /\ db' = [db EXCEPT
                !.columns = IF db.columns = "legacy" THEN "migrated" ELSE db.columns,
                !.rows = IF HasXlmr(db.columns)
                         THEN [i \in 1..Len(db.rows) |->
                                 IF db.rows[i].sentiment_indobert = NULL
                                 THEN [db.rows[i] EXCEPT
                                         !.sentiment_indobert = db.rows[i].sentiment_xlmr,
                                         !.confidence_indobert = db.rows[i].confidence_xlmr]
                                 ELSE db.rows[i]]
                         ELSE db.rows,
                !.now = db.now + 1,
                !.last = [NoOp EXCEPT !.op = "migrate"]]
    /\ UNCHANGED <<scraper, futures, sessions, call>>

\* delete_article_by_id
DeleteArticle ==
    /\ site = "app" /\ db.now < MaxOps
    /\ \E i \in 1..Len(db.rows) :
         db' = [db EXCEPT
                  !.rows = SelectSeq(db.rows, LAMBDA r : r.id # db.rows[i].id),
                  !.now = db.now + 1,
                  !.last = [NoOp EXCEPT !.op = "delete", !.id = db.rows[i].id]]
    /\ UNCHANGED <<scraper, futures, sessions, call>>

DbNext == IngestCsv \/ RunPending \/ MigrateDatabase \/ DeleteArticle

DbSpec == DbInit /\ [][DbNext]_vars

-----------------------------------------------------------------------------
(* Helper functions, each called once on an input of its domain *)

\* a helper function is about to be called: nothing else is running
FnIdle ==
    /\ site = "lib" /\ pc = "call"
    /\ pg = PageStart /\ list_rows = <<>> /\ urls = <<>> /\ idx = 0
    /\ out = <<>> /\ errors = <<>> /\ sources_bound = FALSE
    /\ browser = "none" /\ log = <<>> /\ written = {} /\ exit_status = -1
    /\ search_only = FALSE /\ scrape_content = FALSE
    /\ page_range = <<PageStart, MaxPage>> /\ pending = {}
    /\ max_articles = DefaultMaxArticles
    /\ futures = <<>> /\ sessions = <<>> /\ db = <<>>

\* the call returns v / the call raises
Returns(v) == call' = [call EXCEPT !.ret = v, !.done = TRUE]
RaisesOut == call' = [call EXCEPT !.done = TRUE, !.raised = TRUE]
Called(fns) == call.fn \in fns /\ call.done

(* sentiment_engine.analyze_dual *)

\* `len(str(text).strip()) < 15`
MinTextLen == 15
\* lengths of the stripped text that are tried
TextLens == {0, MinTextLen - 1, MinTextLen}
\* where the call can fail
FailPoints == {"none", "load_models", "model_roberta", "model_indobert",
               "model_topik"}
\* labels the indobert pipeline can give
IndobertLabels == {"positif", "LABEL_0", "other"}
label_map_indobert(l) ==
    CASE l = "positif" -> "POSITIVE"
      [] l = "LABEL_0" -> "NEGATIVE"
      [] OTHER -> "NEUTRAL"

AnalyzeInputs == [len : TextLens, fail : FailPoints, label : IndobertLabels]

\* analyze_dual(text, judul): short text gives the default at once;
\* load_models() is called before the try; a failure of one of the three
\* pipelines is caught and gives the default
analyze_dual(a) ==
    IF a.len < MinTextLen THEN [raised |-> FALSE, ret |-> AnalyzeDefault]
    ELSE IF a.fail = "load_models" THEN [raised |-> TRUE, ret |-> <<>>]
    ELSE IF a.fail # "none" THEN [raised |-> FALSE, ret |-> AnalyzeDefault]
    ELSE [raised |-> FALSE,
          ret |-> <<"POSITIVE", "0.9", label_map_indobert(a.label), "0.8",
                    "Anggaran">>]

CallAnalyzeDual ==
    /\ call.fn = "analyze_dual" /\ ~call.done
    /\ LET r == analyze_dual(call.arg)
       IN  IF r.raised THEN RaisesOut ELSE Returns(r.ret)
    /\ UNCHANGED <<scraper, futures, sessions, db>>

(* The date parsers of the site modules *)

\* a date text as it shows on a page: "dd/mm/yyyy, HH:MM WIB" (slash) or
\* "dd Month yyyy, HH:MM WIB" (long), with or without the comma; the empty
\* text; a text that is no date at all
DateTexts ==
    [shape : {"slash", "long"}, dd : {17, 30, 32}, mm : {2, 12, 13},
     mon : {"Februari", "Desember", "Des", "Smarch"}, yyyy : {2025},
     HH : {9, 25}, MM : {46}, comma : BOOLEAN]
    \cup [shape : {"empty", "garbage"}, dd : {0}, mm : {0}, mon : {""},
          yyyy : {0}, HH : {0}, MM : {0}, comma : {FALSE}]

\* "" / None
EmptyDate == [y |-> 0, mo |-> 0, d |-> 0, H |-> 0, M |-> 0, ytail |-> ""]
\* the text "yyyy-mm-dd HH:MM:00" (ytail: what follows the year digits)
DateStr(y, mo, d, H, M) ==
    [y |-> y, mo |-> mo, d |-> d, H |-> H, M |-> M, ytail |-> ""]

DaysIn(y, mo) ==
    CASE mo \in {4, 6, 9, 11} -> 30
      [] mo = 2 -> IF y % 4 = 0 /\ (y % 100 # 0 \/ y % 400 = 0) THEN 29 ELSE 28
      [] OTHER -> 31
\* datetime(y, mo, d, H, M) raises ValueError outside these ranges
ValidDate(y, mo, d, H, M) ==
    /\ mo \in 1..12 /\ d \in 1..DaysIn(y, mo)
    /\ H \in 0..23 /\ M \in 0..59

\* months = {"Januari": 1, ...}: full names, exact case
months(name) ==
    CASE name = "Februari" -> 2
      [] name = "Desember" -> 12
      [] OTHER -> 0
\* bulan_map.get(mon.lower(), 0): full names and three-letter forms
bulan_map(name) ==
    CASE name \in {"Februari", "Feb"} -> 2
      [] name \in {"Desember", "Des"} -> 12
      [] OTHER -> 0

Parsed(v) == [raised |-> FALSE, ret |-> v]
ValueError == [raised |-> TRUE, ret |-> EmptyDate]

\* kompas: the two patterns, datetime(...) outside any try
parse_kompas_time_text_to_wib(t) ==
    IF t.shape = "slash" /\ t.comma
    THEN IF ValidDate(t.yyyy, t.mm, t.dd, t.HH, t.MM)
         THEN Parsed(DateStr(t.yyyy, t.mm, t.dd, t.HH, t.MM))
         ELSE ValueError
    ELSE IF t.shape = "long" /\ bulan_map(t.mon) # 0
    THEN IF ValidDate(t.yyyy, bulan_map(t.mon), t.dd, t.HH, t.MM)
         THEN Parsed(DateStr(t.yyyy, bulan_map(t.mon), t.dd, t.HH, t.MM))
         ELSE ValueError
    ELSE Parsed(EmptyDate)

\* pikiran-rakyat: one pattern with the comma, everything inside try/except
parse_pikiran_date(t) ==
    IF /\ t.shape = "long" /\ t.comma /\ months(t.mon) # 0
       /\ ValidDate(t.yyyy, months(t.mon), t.dd, t.HH, t.MM)
    THEN Parsed(DateStr(t.yyyy, months(t.mon), t.dd, t.HH, t.MM))
    ELSE Parsed(EmptyDate)

\* tribunnews: split on blanks and paste the parts together, an unknown
\* month name becoming "01"
parse_indo_date_tribun(t) ==
    IF t.shape = "long"
    THEN Parsed([y |-> t.yyyy,
                 mo |-> IF months(t.mon) # 0 THEN months(t.mon) ELSE 1,
                 d |-> t.dd, H |-> t.HH, M |-> t.MM,
                 ytail |-> IF t.comma THEN "," ELSE ""])
    ELSE Parsed(EmptyDate)

\* republika: pattern 1 (comma optional), inside try/except
parse_indo_date_republika(t) ==
    IF /\ t.shape = "long" /\ months(t.mon) # 0
       /\ ValidDate(t.yyyy, months(t.mon), t.dd, t.HH, t.MM)
    THEN Parsed(DateStr(t.yyyy, months(t.mon), t.dd, t.HH, t.MM))
    ELSE Parsed(EmptyDate)

DateParsers == {"parse_kompas_time_text_to_wib", "parse_pikiran_date",
                "parse_indo_date_tribun", "parse_indo_date_republika"}

CallDateParser ==
    /\ call.fn \in DateParsers /\ ~call.done
    /\ LET r == CASE call.fn = "parse_kompas_time_text_to_wib"
                       -> parse_kompas_time_text_to_wib(call.arg)
                  [] call.fn = "parse_pikiran_date"
                       -> parse_pikiran_date(call.arg)
                  [] call.fn = "parse_indo_date_tribun"
                       -> parse_indo_date_tribun(call.arg)
                  [] OTHER -> parse_indo_date_republika(call.arg)
       IN  IF r.raised THEN RaisesOut ELSE Returns(r.ret)
    /\ UNCHANGED <<scraper, futures, sessions, db>>

(* ISO-8601 publish times *)

\* the offset of WIB (Asia/Jakarta) from UTC, in hours
WibOffset == 7

\* a timestamp "yyyy-mm-ddTHH:MM:00" followed by Z (z) or by an offset of
\* off hours
IsoStamps ==
    [y : {2025}, mo : {12}, d : {17, 31}, H : {1, 17, 23}, M : {2},
     off : {0, WibOffset, -5}, z : {FALSE}]
    \cup [y : {2025}, mo : {12}, d : {17, 31}, H : {1, 17, 23}, M : {2},
          off : {0}, z : {TRUE}]

\* the day after y-mo-d
NextDay(y, mo, d) ==
    IF d < DaysIn(y, mo) THEN [y |-> y, mo |-> mo, d |-> d + 1]
    ELSE IF mo < 12 THEN [y |-> y, mo |-> mo + 1, d |-> 1]
    ELSE [y |-> y + 1, mo |-> 1, d |-> 1]

\* dt.astimezone(WIB): the same instant on the WIB clock (offsets west of
\* WIB only, so the clock moves forward by less than a day)
astimezone_wib(ts) ==
    LET h == ts.H + (WibOffset - ts.off)
        day == IF h >= 24 THEN NextDay(ts.y, ts.mo, ts.d)
               ELSE [y |-> ts.y, mo |-> ts.mo, d |-> ts.d]
    IN  DateStr(day.y, day.mo, day.d, h % 24, ts.M)

\* detik, kompas, tribunnews iso_to_wib and tempo parse_iso_to_wib: Z is
\* rewritten to +00:00, fromisoformat, astimezone(WIB), strftime
iso_to_wib(ts) == astimezone_wib(ts)

\* pikiran-rakyat parse_article_page, strategy 2:
\* datetime.fromisoformat(meta_date.replace('Z', '+00:00')), then strftime
\* of that aware datetime as it is
pr_meta_date(ts) == DateStr(ts.y, ts.mo, ts.d, ts.H, ts.M)

\* republika parse_indo_date, pattern 2: the digits of the ISO text, with
\* tzinfo=WIB put on them
parse_indo_date_iso(ts) == DateStr(ts.y, ts.mo, ts.d, ts.H, ts.M)

IsoConverters == {"detik.iso_to_wib", "kompas.iso_to_wib", "tribun.iso_to_wib",
                  "tempo.parse_iso_to_wib", "pr.parse_article_page",
                  "republika.parse_indo_date"}

CallIsoConverter ==
    /\ call.fn \in IsoConverters /\ ~call.done
    /\ Returns(CASE call.fn = "pr.parse_article_page" -> pr_meta_date(call.arg)
                 [] call.fn = "republika.parse_indo_date"
                      -> parse_indo_date_iso(call.arg)
                 [] OTHER -> iso_to_wib(call.arg))
    /\ UNCHANGED <<scraper, futures, sessions, db>>

(* clean_text *)

\* longest text cleaned
MaxText == 4
\* a letter, a blank, a non-ASCII character, an ASCII sign outside the kept
\* punctuation
Chars == {"a", " ", "e_acute", "@"}
Texts == UNION {[1..k -> Chars] : k \in 0..MaxText}

\* re.sub(r'\s+', ' ', text)
RECURSIVE CollapseWs(_)
CollapseWs(t) ==
    IF Len(t) < 2 THEN t
    ELSE IF t[1] = " " /\ t[2] = " " THEN CollapseWs(Tail(t))
    ELSE <<t[1]>> \o CollapseWs(Tail(t))

\* re.sub(r'[^\x00-\x7F]+', ' ', text): a run of non-ASCII characters
\* becomes one blank
RECURSIVE NonAsciiToSpace(_)
NonAsciiToSpace(t) ==
    IF t = <<>> THEN <<>>
    ELSE IF t[1] = "e_acute"
         THEN IF Len(t) >= 2 /\ t[2] = "e_acute" THEN NonAsciiToSpace(Tail(t))
              ELSE <<" ">> \o NonAsciiToSpace(Tail(t))
    ELSE <<t[1]>> \o NonAsciiToSpace(Tail(t))

\* re.sub(r'[^\w\s.,!?;:()\-..."\']', '', text)
RemoveSpecial(t) == SelectSeq(t, LAMBDA c : c # "@")

\* str.strip()
RECURSIVE Strip(_)
Strip(t) ==
    IF t = <<>> THEN t
    ELSE IF t[1] = " " THEN Strip(Tail(t))
    ELSE IF t[Len(t)] = " " THEN Strip(SubSeq(t, 1, Len(t) - 1))
    ELSE t

\* detik, kompas, tempo, tribunnews:
\* re.sub(r"\s+", " ", s or "").strip()
clean_text_detik(t) == Strip(CollapseWs(t))

\* pikiran-rakyat: whitespace, non-ASCII, (control characters,) signs, strip
clean_text_pr(t) ==
    IF t = <<>> THEN <<>>
    ELSE Strip(RemoveSpecial(NonAsciiToSpace(CollapseWs(t))))

\* republika: the same, with a second whitespace pass before the strip
clean_text_republika(t) ==
    IF t = <<>> THEN <<>>
    ELSE Strip(CollapseWs(RemoveSpecial(NonAsciiToSpace(CollapseWs(t)))))

CleanTexts == {"detik.clean_text", "pr.clean_text", "republika.clean_text"}

clean_text(module, t) ==
    CASE module = "pr.clean_text" -> clean_text_pr(t)
      [] module = "republika.clean_text" -> clean_text_republika(t)
      [] OTHER -> clean_text_detik(t)

CallCleanText ==
    /\ call.fn \in CleanTexts /\ ~call.done
    /\ Returns(clean_text(call.fn, call.arg))
    /\ UNCHANGED <<scraper, futures, sessions, db>>

(* scrap_republika.parse_page_range and the start of main *)

\* longest --pages text tried
MaxPageStr == 5
PageChars == {"1", "2", "-", ","}
Digits == {"1", "2"}
PageStrs == UNION {[1..n -> PageChars] : n \in 1..MaxPageStr}

\* str.split(sep): the pieces between the separators, empty pieces included
RECURSIVE Split(_, _)
Split(s, sep) ==
    IF \A i \in 1..Len(s) : s[i] # sep THEN <<s>>
    ELSE LET k == CHOOSE i \in 1..Len(s) :
                      s[i] = sep /\ \A j \in 1..(i - 1) : s[j] # sep
         IN <<SubSeq(s, 1, k - 1)>> \o Split(SubSeq(s, k + 1, Len(s)), sep)

\* int(text) accepts the text: a non-empty run of digits
IsInt(s) == s # <<>> /\ \A i \in 1..Len(s) : s[i] \in Digits
DigitVal(c) == IF c = "1" THEN 1 ELSE 2
RECURSIVE int(_)
int(s) == IF Len(s) = 1 THEN DigitVal(s[1])
          ELSE 10 * int(SubSeq(s, 1, Len(s) - 1)) + DigitVal(s[Len(s)])

\* `start, end = map(int, part.split('-'))`: exactly two pieces, both numbers
TwoInts(part) ==
    LET ps == Split(part, "-") IN Len(ps) = 2 /\ IsInt(ps[1]) /\ IsInt(ps[2])
StartEnd(part) ==
    LET ps == Split(part, "-") IN <<int(ps[1]), int(ps[2])>>

PageValueError == [kind |-> "ValueError", ranges |-> <<>>]

\* parse_page_range: the test for '-' comes first, so the branch for ','
\* only sees texts without any '-'
parse_page_range(page_str) ==
    IF \E i \in 1..Len(page_str) : page_str[i] = "-"
    THEN IF TwoInts(page_str)
         THEN [kind |-> "tuple", ranges |-> <<StartEnd(page_str)>>]
         ELSE PageValueError
    ELSE IF \E i \in 1..Len(page_str) : page_str[i] = ","
    THEN LET parts == Split(page_str, ",")
         IN IF \A k \in 1..Len(parts) : IsInt(parts[k])
            THEN [kind |-> "list",
                  ranges |-> [k \in 1..Len(parts) |->
                                <<int(parts[k]), int(parts[k])>>]]
            ELSE PageValueError
    ELSE IF IsInt(page_str)
         THEN [kind |-> "tuple", ranges |-> <<<<int(page_str), int(page_str)>>>>]
         ELSE PageValueError

\* main, up to the loop over the ranges: a ValueError of parse_page_range is
\* caught by `except Exception` (error exit); otherwise the ranges to process
main_page_ranges(page_str) ==
    LET r == parse_page_range(page_str)
    IN IF r.kind = "ValueError" THEN [kind |-> "error_exit", ranges |-> <<>>]
       ELSE [kind |-> "process", ranges |-> r.ranges]

PageRangeFns == {"parse_page_range", "scrap_republika.main"}

CallPageRange ==
    /\ call.fn \in PageRangeFns /\ ~call.done
    /\ IF call.fn = "parse_page_range"
       THEN Returns(parse_page_range(call.arg))
       ELSE Returns(main_page_ranges(call.arg))
    /\ UNCHANGED <<scraper, futures, sessions, db>>

(* Fields of a detail page: which source of the page wins *)

\* what a detail page offers for one field: the value of the linked-data
\* block, of the meta tag, of the HTML element (heading, byline, visible
\* time, already normalized); "" when the page lacks it
DetailFields == [ld : {"", "ld value"}, meta : {"", "meta value"},
                 html : {"", "html value"}]

\* Python's `a or b` on strings
Or(a, b) == IF a # "" THEN a ELSE b

\* tribunnews parse_detail_page: og:title or h1; #penulis, then meta author;
\* `time span`, then article:published_time
tribun_title(p) == Or(p.meta, p.html)
tribun_author(p) == Or(p.html, p.meta)
tribun_published(p) == Or(p.html, p.meta)

\* pikiran-rakyat parse_article_page: the h1 strategies, then og:title, then
\* the default text; span.date_detail, then article:published_time
pr_title(p) == Or(p.html, Or(p.meta, "Judul tidak ditemukan"))
pr_published(p) == Or(p.html, p.meta)

\* tempo parse_tempo_detail: ld headline, then og:title, then h1; author and
\* datePublished from the linked data only
tempo_title(p) == Or(p.ld, Or(p.meta, p.html))
tempo_author(p) == p.ld
tempo_published(p) == p.ld

FieldExtractors == {"tribun.title", "tribun.author", "tribun.published",
                    "pr.title", "pr.published",
                    "tempo.title", "tempo.author", "tempo.published"}

extract_field(f, p) ==
    CASE f = "tribun.title" -> tribun_title(p)
      [] f = "tribun.author" -> tribun_author(p)
      [] f = "tribun.published" -> tribun_published(p)
      [] f = "pr.title" -> pr_title(p)
      [] f = "pr.published" -> pr_published(p)
      [] f = "tempo.title" -> tempo_title(p)
      [] f = "tempo.author" -> tempo_author(p)
      [] OTHER -> tempo_published(p)

CallExtractField ==
    /\ call.fn \in FieldExtractors /\ ~call.done
    /\ Returns(extract_field(call.fn, call.arg))
    /\ UNCHANGED <<scraper, futures, sessions, db>>

FnInit ==
    /\ FnIdle
    /\ \/ call \in {[NoCall EXCEPT !.fn = "analyze_dual", !.arg = a] :
                      a \in AnalyzeInputs}
       \/ call \in {[NoCall EXCEPT !.fn = f, !.arg = t] :
                      f \in DateParsers, t \in DateTexts}
       \/ call \in {[NoCall EXCEPT !.fn = f, !.arg = ts] :
                      f \in IsoConverters, ts \in IsoStamps}
       \/ call \in {[NoCall EXCEPT !.fn = f, !.arg = t] :
                      f \in CleanTexts, t \in Texts}
       \/ call \in {[NoCall EXCEPT !.fn = f, !.arg = t] :
                      f \in PageRangeFns, t \in PageStrs}
       \/ call \in {[NoCall EXCEPT !.fn = f, !.arg = p] :
                      f \in FieldExtractors, p \in DetailFields}

FnNext ==
    \/ CallAnalyzeDual
    \/ CallDateParser
    \/ CallIsoConverter
    \/ CallCleanText
    \/ CallPageRange
    \/ CallExtractField

FnSpec == FnInit /\ [][FnNext]_vars

-----------------------------------------------------------------------------
(* Properties *)

\* the five site orchestrators
Orchestrators == {"detik", "kompas", "tempo", "tribun", "pr"}

LastNav == log[Len(log)]
DetailNavs == {k \in 1..Len(log) : log[k].t = "detail"}
ListNavs == {k \in 1..Len(log) : log[k].t = "list"}
\* the detail fetch or parse of u raised
Raised(u) == \E k \in DetailNavs : log[k].url = u /\ log[k].res = "raise"
\* index of the first accumulated listing item with url u
FirstIdx(u) == CHOOSE k \in 1..Len(list_rows) :
                  /\ list_rows[k].url = u
                  /\ \A j \in 1..(k - 1) : list_rows[j].url # u
Listed(u) == \E k \in 1..Len(list_rows) : list_rows[k].url = u
\* the dedup phase has run
Deduped == site \in Orchestrators /\ pc \in {"detail", "finish", "returned"}

\* C1: in the detail phase no exception raised while handling one article
\* url, the failure handler included, escapes the orchestrator.
C1_DetailNeverEscapes ==
    ~(site \in Orchestrators /\ pc = "raised" /\ log # <<>> /\ LastNav.t = "detail")

\* C2: when a run reaches the output phase, the output table has exactly one
\* row for each unique url of the listing phase, whether its detail fetch
\* succeeded or raised.
C2_OneRowPerUrl ==
    (site \in Orchestrators /\ pc = "returned")
        => /\ Len(out) = Len(urls)
           /\ \A i \in 1..Len(urls) : out[i].url = urls[i]

\* C3 as stated: the record emitted for a url whose detail fetch or parse
\* raised has empty content, empty author, empty published date, and the
\* title of that url from the listing phase.
C3_DegradedDateEmpty ==
    \A i \in 1..Len(out) :
        (site \in Orchestrators /\ Raised(out[i].url))
            => /\ out[i].content = ""
               /\ out[i].author = ""
               /\ out[i].tanggal = ""
               /\ out[i].judul = list_rows[FirstIdx(out[i].url)].title_list

\* C3 amended: the record emitted for a url whose detail fetch or parse
\* raised has empty content, empty author and the title of that url from the
\* listing phase; its published date is empty, except on detik, where it is
\* the date text of that url from the listing phase.
C3_DegradedRecord ==
    \A i \in 1..Len(out) :
        (site \in Orchestrators /\ Raised(out[i].url))
            => /\ out[i].content = ""
               /\ out[i].author = ""
               /\ out[i].judul = list_rows[FirstIdx(out[i].url)].title_list
               /\ out[i].tanggal =
                     IF site = "detik"
                     THEN list_rows[FirstIdx(out[i].url)].published_wib
                     ELSE ""

\* C3 witness: a detail fetch raised on detik and the degraded record, with
\* the list title and the list date, has been emitted.
C3_Witness ==
    \E i \in 1..Len(out) :
        /\ site = "detik" /\ Raised(out[i].url)
        /\ out[i].tanggal = ListDate /\ out[i].judul # NoTitle

\* C4: an exception raised while fetching or parsing a listing page never
\* propagates out of the orchestrator.
C4_ListingNeverEscapes ==
    ~(site \in Orchestrators /\ pc = "raised" /\ log # <<>> /\ LastNav.t = "list")

\* C5: once a listing page yields zero candidate items, no later listing
\* page is fetched in that run, whatever the index of the empty page.
C5_StopAtEmptyPage ==
    site \in Orchestrators
        => \A j \in ListNavs, k \in ListNavs : (log[j].n = 0 /\ j < k) => FALSE

\* C6 as stated: after the dedup phase every url of the accumulated listing
\* items occurs exactly once in the sequence, in the order of first
\* occurrence, and the list title that goes with it is that of its first
\* occurrence.
C6_EveryUrlOnce ==
    Deduped =>
        /\ \A k \in 1..Len(list_rows) :
              Cardinality({i \in 1..Len(urls) : urls[i] = list_rows[k].url}) = 1
        /\ \A i \in 1..Len(urls) : Listed(urls[i])
        /\ \A i \in 1..Len(urls), j \in 1..Len(urls) :
              i < j => FirstIdx(urls[i]) < FirstIdx(urls[j])
        /\ \A i \in 1..Len(out) :
              (Raised(out[i].url) \/ site = "detik")
                 => out[i].judul = list_rows[FirstIdx(out[i].url)].title_list

\* the urls the dedup phase of the site keeps
Admitted(u) == site = "pr" => InBase(u)

\* C6 amended: after the dedup phase every url of the accumulated listing
\* items (on pikiran-rakyat: every such url that contains the base url of
\* the site) occurs exactly once in the sequence and no other url occurs, in
\* the order of first occurrence, and the list title that goes with a url is
\* that of its first occurrence.
C6_DedupFirstSeen ==
    Deduped =>
        /\ \A k \in 1..Len(list_rows) :
              Cardinality({i \in 1..Len(urls) : urls[i] = list_rows[k].url})
                 = IF Admitted(list_rows[k].url) THEN 1 ELSE 0
        /\ \A i \in 1..Len(urls) : Listed(urls[i])
        /\ \A i \in 1..Len(urls), j \in 1..Len(urls) :
              i < j => FirstIdx(urls[i]) < FirstIdx(urls[j])
        /\ \A i \in 1..Len(out) :
              (Raised(out[i].url) \/ site = "detik")
                 => out[i].judul = list_rows[FirstIdx(out[i].url)].title_list

\* C6 witness: the same url was listed on two pages with two titles, the
\* dedup phase has run, and a row carrying the list title has been emitted.
C6_Witness ==
    /\ Deduped
    /\ \E i \in 1..Len(list_rows), j \in 1..Len(list_rows) :
          /\ i < j
          /\ list_rows[i].url = list_rows[j].url
          /\ list_rows[i].page # list_rows[j].page
          /\ list_rows[i].title_list # list_rows[j].title_list
          /\ \E r \in 1..Len(out) :
                out[r].url = list_rows[i].url /\ Raised(out[r].url)

\* C7: no url whose listing title contains "video" is fetched in the detail
\* phase.
C7_NoVideoFetched ==
    site \in Orchestrators
        => \A k \in DetailNavs :
              ~\E i \in 1..Len(list_rows) :
                  list_rows[i].url = log[k].url /\ HasVideo(list_rows[i].title_list)

\* C8: every orchestrator run whose browser was launched ends with an output
\* artifact written; stated here for the runs out of which no exception
\* escaped, those that closed their browser and returned.
C8_ArtifactWritten ==
    (site \in Orchestrators /\ pc = "exited" /\ browser = "closed")
        => written # {}

\* C9: a command-line run that completes its scrape exits with status 0,
\* also when it found zero articles.
C9_CompletedExitsZero ==
    (pc = "exited" /\ browser = "closed") => exit_status = 0

\* C10: when the browser launch raises, the process exits with a non-zero
\* status.
C10_LaunchFailureNonZero ==
    (pc = "exited" /\ browser = "none") => exit_status # 0

\* number of elements of seq with url u
CountUrl(seq, u) == Cardinality({i \in 1..Len(seq) : seq[i].url = u})
CountIn(us, u) == Cardinality({i \in 1..Len(us) : us[i] = u})
BatchReturned == call.fn = "scrape_republika_batch" /\ pc = "returned"

\* C11: when scrape_republika_batch returns, every occurrence of every input
\* url is accounted for exactly once, as a record among the successes or as
\* an entry among the failures: for each url the successes and failures for
\* it number its occurrences, and the two collections together number the
\* input list.
C11_BatchAccounting ==
    BatchReturned =>
        /\ call.ret = <<out, errors>>
        /\ Len(out) + Len(errors) = Len(urls)
        /\ \A u \in SiteUrls :
              CountUrl(out, u) + CountUrl(errors, u) = CountIn(urls, u)

\* C11 witness: a batch whose list names a url twice has returned with a
\* success and a failure.
C11_Witness ==
    /\ BatchReturned
    /\ \E i \in 1..Len(urls), j \in 1..Len(urls) : i < j /\ urls[i] = urls[j]
    /\ out # <<>> /\ errors # <<>>

\* the step is one operation on the article store, of the given kind
DbStep(kind) == db'.now # db.now /\ db'.last.op = kind
StoredUrls(rows) == {rows[i].url : i \in 1..Len(rows)}
\* the rows of the two tables that are the same stored record
SameRecord(i, j) == db.rows[i].id = db'.rows[j].id

\* C12: an ingest reports as inserted the number of urls of the file that
\* were not stored before, leaves every stored row as it was, and leaves at
\* most one row per url in the table (so a second ingest of the same file
\* inserts nothing).
C12_IngestByUrl ==
    [][DbStep("ingest") =>
         /\ ~db'.last.raised
         /\ db'.last.inserted
               = Cardinality({db'.last.file[k].url : k \in 1..Len(db'.last.file)}
                             \ StoredUrls(db.rows))
         /\ \A i \in 1..Len(db.rows) : db'.rows[i] = db.rows[i]
         /\ \A i \in 1..Len(db'.rows), j \in 1..Len(db'.rows) :
               db'.rows[i].url = db'.rows[j].url => i = j]_vars

\* C13: across ingest, run-for-pending and migration steps, a topic or
\* sentiment field of a stored record that is not null keeps its value.
C13_DerivedWrittenOnce ==
    [][\A i \in 1..Len(db.rows), j \in 1..Len(db'.rows) :
          SameRecord(i, j) =>
             /\ db.rows[i].topic # NULL
                   => db'.rows[j].topic = db.rows[i].topic
             /\ db.rows[i].sentiment_w11wo # NULL
                   => db'.rows[j].sentiment_w11wo = db.rows[i].sentiment_w11wo
             /\ db.rows[i].sentiment_indobert # NULL
                   => db'.rows[j].sentiment_indobert = db.rows[i].sentiment_indobert]_vars

FrameKept(r, q) ==
    /\ r.source = q.source /\ r.url = q.url /\ r.judul = q.judul
    /\ r.content = q.content /\ r.published_at = q.published_at
    /\ r.ingested_at = q.ingested_at

\* C14: update_article_data(id, ...) leaves source, url, title, content,
\* published_at and ingested_at of the row with that id, and every field of
\* every other row, unchanged, and deletes or adds no row; an ingest leaves
\* every stored row, its ingested_at included, unchanged.
C14_UpdateFrame ==
    [][/\ DbStep("update") =>
            /\ Len(db'.rows) = Len(db.rows)
            /\ \A i \in 1..Len(db.rows) :
                  /\ db'.rows[i].id = db.rows[i].id
                  /\ FrameKept(db.rows[i], db'.rows[i])
                  /\ db.rows[i].id # db'.last.id => db'.rows[i] = db.rows[i]
       /\ DbStep("ingest") =>
            \A i \in 1..Len(db.rows), j \in 1..Len(db'.rows) :
               SameRecord(i, j) => db'.rows[j] = db.rows[i]]_vars

\* C14 witness: update_article_data has just written the labels of one row
\* of a table in which another row is still pending.
C14_Witness ==
    /\ db.last.op = "update" /\ ~db.last.raised
    /\ \E i \in 1..Len(db.rows), j \in 1..Len(db.rows) :
          /\ db.rows[i].id = db.last.id
          /\ db.rows[i].sentiment_w11wo # NULL
          /\ db.rows[j].id # db.last.id
          /\ db.rows[j].sentiment_w11wo = NULL

\* C15: whatever fails inside analyze_dual, in loading the models or in
\* running one of the three, the call returns the default tuple and does not
\* raise.
C15_AnalyzeFailSafe ==
    (Called({"analyze_dual"}) /\ call.arg.fail # "none")
        => ~call.raised /\ call.ret = AnalyzeDefault

\* the text names a day and a time that exist
IsDate(t) ==
    /\ t.shape \in {"slash", "long"}
    /\ LET mo == IF t.shape = "slash" THEN t.mm ELSE bulan_map(t.mon)
       IN  mo \in 1..12 /\ t.dd \in 1..DaysIn(t.yyyy, mo)
    /\ t.HH \in 0..23 /\ t.MM \in 0..59

\* C16: on a text that is not a valid date, a text of the expected shape
\* with a field out of range included, each site's date parser returns
\* null/empty and does not raise.
C16_InvalidDateGivesNull ==
    (Called(DateParsers) /\ ~IsDate(call.arg))
        => ~call.raised /\ call.ret = EmptyDate

\* days from the first of January 2025 to y-mo-d
RECURSIVE DaysBefore(_, _)
DaysBefore(y, mo) ==
    IF mo = 1 THEN (IF y = 2025 THEN 0 ELSE DaysBefore(y - 1, 12) + DaysIn(y - 1, 12))
    ELSE DaysBefore(y, mo - 1) + DaysIn(y, mo - 1)
\* hours on the clock that shows y-mo-d H since 2025-01-01 00:00 on it
ClockHours(y, mo, d, H) == (DaysBefore(y, mo) + d - 1) * 24 + H

\* C17: for an ISO-8601 timestamp with an offset or a trailing Z, the
\* published time every site extractor emits is the same instant on the
\* UTC+7 clock: the emitted clock reading less seven hours is the input
\* clock reading less its offset, minutes unchanged.
C17_IsoToWib ==
    Called(IsoConverters) =>
        /\ ClockHours(call.ret.y, call.ret.mo, call.ret.d, call.ret.H) - 7
              = ClockHours(call.arg.y, call.arg.mo, call.arg.d, call.arg.H)
                   - call.arg.off
        /\ call.ret.M = call.arg.M

\* C18: clean_text is idempotent in every site module: cleaning the result
\* of a clean_text call once more gives that result again.
C18_CleanTextIdempotent ==
    Called(CleanTexts) => clean_text(call.fn, call.ret) = call.ret

\* the successes of a batch whose results are taken in the order of the url
\* list, from position i on: what the page contents alone determine
RECURSIVE RowsInUrlOrder(_)
RowsInUrlOrder(i) ==
    IF i > Len(urls) THEN <<>>
    ELSE (IF futures[i] = "metadata"
          THEN <<OutRow("republika", DetailDate, <<"Judul", "Detail">>,
                        DetailContent, DetailAuthor, urls[i])>>
          ELSE <<>>) \o RowsInUrlOrder(i + 1)

\* C19: two runs of an orchestrator on the same listing and detail page
\* contents give the same rows in the same order (scrape timestamp aside):
\* the rows are fixed by the url list and by what each page gave, so the
\* batch of the republika orchestrator returns its successes in the order of
\* the url list, however its workers were scheduled.
C19_SameRowsSameOrder ==
    BatchReturned => call.ret[1] = RowsInUrlOrder(1)

\* C20: a Pikiran-Rakyat run started with --search-only navigates to search
\* pages only, never to an article detail page.
C20_SearchOnlyNoDetail ==
    (site = "pr" /\ search_only) => DetailNavs = {}

\* C21: a Pikiran-Rakyat command-line run scrapes at most --max-articles
\* article detail pages, however many unique urls the search phase gave.
C21_MaxArticlesBound ==
    site = "pr" => Cardinality(DetailNavs) <= max_articles

\* one part of a --pages list: a page "N" or a range "N-M"
HasChar(s, c) == \E i \in 1..Len(s) : s[i] = c
PagePart(part) == IF HasChar(part, "-") THEN TwoInts(part) ELSE IsInt(part)
PartRange(part) == IF HasChar(part, "-") THEN StartEnd(part)
                   ELSE <<int(part), int(part)>>
\* a comma-separated list of pages and ranges
PageList(s) == /\ HasChar(s, ",")
               /\ \A k \in 1..Len(Split(s, ",")) : PagePart(Split(s, ",")[k])

\* C22: for a comma-separated list of ranges and single pages,
\* parse_page_range returns one (start, end) pair per part, in order, and
\* main processes those ranges instead of taking the error exit.
C22_PageListParsed ==
    (Called(PageRangeFns) /\ PageList(call.arg)) =>
        /\ call.ret.kind \in {"list", "process"}
        /\ call.ret.ranges = [k \in 1..Len(Split(call.arg, ",")) |->
                                PartRange(Split(call.arg, ",")[k])]

TasksInProgress == {i \in DOMAIN futures : futures[i] \in {"running", "browsing"}}
\* a step that touches the success or the failure collection
CollectionsChange == out' # out \/ errors' # errors

\* C24: during scrape_republika_batch at most max_workers url tasks are in
\* progress at any moment; every task navigates with a browser session that
\* it launched itself and that no other task uses; and the success and
\* failure collections change only in a step of the collecting loop (which
\* takes one future off the pending set), never in a step of a worker (which
\* changes a future).
C24_WorkersIsolated ==
    /\ [](call.fn = "scrape_republika_batch" =>
            /\ Cardinality(TasksInProgress) <= call.arg[1]
            /\ \A k \in DOMAIN sessions :
                 /\ sessions[k].users \subseteq {sessions[k].launched_by}
                 /\ sessions[k].state # "none" => sessions[k].launched_by = k
            /\ \A i \in DOMAIN futures :
                 futures[i] = "browsing" => sessions[i].state = "open")
    /\ [][CollectionsChange =>
             /\ futures' = futures /\ sessions' = sessions
             /\ \E i \in pending : pending' = pending \ {i}]_vars

\* two tasks are browsing at once, each in its own session, a third task has
\* already been collected
C24_Witness ==
    /\ call.fn = "scrape_republika_batch" /\ call.arg[1] = 2
    /\ Len(out) + Len(errors) >= 1
    /\ \E i, j \in DOMAIN futures :
         /\ i # j /\ futures[i] = "browsing" /\ futures[j] = "browsing"
         /\ sessions[i].state = "open" /\ sessions[j].state = "open"

IsNav(e) == e.t \in {"list", "detail"}

\* C25: in any orchestrator run there is at least one randomized delay
\* between any two consecutive page navigations, listing or detail: no two
\* navigations are adjacent in the history of the run, the last listing
\* fetch (the empty page that ends pagination) and the first detail fetch
\* included.
C25_DelayBetweenNavigations ==
    site \in Orchestrators =>
        \A k \in 1..(Len(log) - 1) : ~(IsNav(log[k]) /\ IsNav(log[k + 1]))

\* a date text of the expected long shape, valid but for its month name,
\* which no month table holds
UnknownMonth(t) ==
    /\ t.shape = "long" /\ t.mon = "Smarch"
    /\ t.dd \in 1..28 /\ t.HH \in 0..23

\* C26: a date text of the expected shape whose month name is not in the
\* month table normalizes to null/empty; no timestamp with a default month
\* (such as January) is emitted.
C26_UnknownMonthGivesNull ==
    (Called(DateParsers) /\ UnknownMonth(call.arg)) =>
        ~call.raised /\ call.ret = EmptyDate

\* C27: for every field of a detail page and every site extractor, when the
\* structured-metadata values (linked data, meta tag) and an HTML-scraped
\* value are all present, the extracted field is a structured-metadata
\* value, not the HTML one.
C27_MetadataWins ==
    (/\ Called(FieldExtractors)
     /\ call.arg.html # "" /\ call.arg.ld # "" /\ call.arg.meta # "") =>
        call.ret \in {call.arg.ld, call.arg.meta}

\* the title the detail page of navigation k gave, or else the list-page
\* title of the same url
DetailElseListTitle(k) ==
    IF log[k].title # NoTitle THEN log[k].title
    ELSE BaseRow(list_rows, log[k].url).title_list

\* C28: the title of every output row is the title extracted from the detail
\* page of its url when that is non-empty, and the list-page title of the
\* same url otherwise.
C28_TitleDetailElseList ==
    site \in Orchestrators =>
        \A i \in 1..Len(out) :
            \E k \in DetailNavs :
                /\ log[k].url = out[i].url
                /\ out[i].judul = DetailElseListTitle(k)

\* the per-url entries of the errors list
UrlErrors == SelectSeq(errors, LAMBDA e : e.kind = "url")
\* search_pikiran_rakyat is past its detail phase
PrDetailDone == site = "pr" /\ pc \in {"finish", "returned", "exited"}

\* C29: in search_pikiran_rakyat every unique url of the dedup phase ends the
\* detail phase accounted for exactly once, as one entry of the articles
\* list or as one url-prefixed entry of the errors list, so that
\* total_articles_scraped plus the number of per-url error entries equals
\* total_unique_urls.
C29_PrUrlsAccounted ==
    PrDetailDone =>
        /\ \A k \in 1..Len(urls) :
              CountUrl(out, urls[k]) + CountUrl(UrlErrors, urls[k]) = 1
        /\ Len(out) + Len(UrlErrors) = Len(urls)

\* a finished run with two unique urls, one scraped, one failed, and a
\* search page that failed as well
C29_Witness ==
    /\ PrDetailDone /\ Len(urls) = 2
    /\ Len(out) = 1 /\ Len(UrlErrors) = 1
    /\ Len(errors) > Len(UrlErrors)

\* the failure entries of a batch taken in the order of the url list
RECURSIVE ErrorsInUrlOrder(_)
ErrorsInUrlOrder(i) ==
    IF i > Len(urls) THEN <<>>
    ELSE (IF futures[i] = "error_dict" THEN <<UrlError(urls[i])>> ELSE <<>>)
         \o ErrorsInUrlOrder(i + 1)

\* C30: scrape_republika_batch returns its successes, and its failures, in
\* the relative order of their urls in the input list, whichever worker
\* finishes first: the two returned lists are fixed by the url list and the
\* per-url results, not by the completion order.
C30_BatchOrderIndependent ==
    BatchReturned =>
        /\ [k \in 1..Len(call.ret[1]) |-> call.ret[1][k].url]
             = [k \in 1..Len(RowsInUrlOrder(1)) |-> RowsInUrlOrder(1)[k].url]
        /\ call.ret[2] = ErrorsInUrlOrder(1)

====
